---- MODULE Spec2Model ----
(***************************************************************************)
(* proximus-mcp: a JSON-RPC 2.0 tool server over WebSocket (/mcp) and its  *)
(* plain HTTP variant (POST /query), both in src/server.js.                *)
(*                                                                         *)
(* Program state: the read-only configuration, the sockets with their      *)
(* keepalive timers, the message handlers suspended on an upstream fetch   *)
(* and the POST /query handlers suspended on theirs.  `last` observes the   *)
(* most recent step of the server: the request it handled and what it      *)
(* wrote for it.  Every step is the last step in the state that follows    *)
(* it, so an invariant over `last` speaks about every step ever taken.     *)
(***************************************************************************)
EXTENDS Integers, Sequences, FiniteSets, TLC

VARIABLES variant, MCP_REQUIRE_KEY, MCP_API_KEY, DEMO_API_URL, upstream,
          ws, pingIv, handlers, posts, last

\* The configuration and the rows the upstream holds: fixed once the process runs.
config == <<variant, MCP_REQUIRE_KEY, MCP_API_KEY, DEMO_API_URL, upstream>>
vars == <<variant, MCP_REQUIRE_KEY, MCP_API_KEY, DEMO_API_URL, upstream,
          ws, pingIv, handlers, posts, last>>

(***************************************************************************)
(* Bounds of the model.                                                    *)
(***************************************************************************)
MaxConns == 2
MaxMsgs == 2
MaxPosts == 2
MaxRows == 7

Slots == 1..MaxConns

(***************************************************************************)
(* JavaScript values.  Every value is a tagged record, so that undefined,  *)
(* null, numbers, strings and objects can be told apart and compared.      *)
(* A "text" is a string built by concatenation, kept as its parts.         *)
(***************************************************************************)
Undefined == [t |-> "undefined"]
JNull == [t |-> "null"]
JNum(n) == [t |-> "num", n |-> n]
JStr(s) == [t |-> "str", s |-> s]
JObj(o) == [t |-> "obj", o |-> o]
JText(parts) == [t |-> "text", parts |-> parts]
EmptyObj == JObj(<<>>)

\* ToBoolean, as used by `!x`, `x || y`, `x && y` and `x ? a : b`.
Truthy(v) ==
  CASE v.t = "undefined" -> FALSE
    [] v.t = "null" -> FALSE
    [] v.t = "num" -> v.n # 0
    [] v.t = "str" -> v.s # ""
    [] OTHER -> TRUE

\* `a || b`
Or(a, b) == IF Truthy(a) THEN a ELSE b

\* Reading a property of null or undefined throws a TypeError.
PropThrows(v) == v.t \in {"undefined", "null"}

\* `v.k` for a value that is not null or undefined: own keys of an object,
\* undefined for anything else (numbers and strings have no such keys).
Prop(v, k) ==
  IF v.t = "obj" /\ k \in DOMAIN v.o THEN v.o[k] ELSE Undefined

\* `const { k = def } = v`: the default replaces undefined only, never null.
PropOr(v, k, def) == IF Prop(v, k) = Undefined THEN def ELSE Prop(v, k)

\* JSON.stringify of an object literal: a key whose value is undefined is omitted.
Stringify(o) == [k \in {f \in DOMAIN o : o[f] # Undefined} |-> o[k]]

(***************************************************************************)
(* Configuration, read once from the environment.                          *)
(***************************************************************************)
Secret == "s3cret"
DemoUrl == "https://demo/api/data"

\* `process.env.MCP_API_KEY || null`: a string that is not empty, or null.
ApiKeyValues == {JNull, JStr(Secret)}
\* `process.env.DEMO_API_URL`: unset, or a URL.
DemoUrlValues == {Undefined, JStr(DemoUrl)}

(***************************************************************************)
(* The WebSocket gate: server.on("upgrade").                               *)
(*                                                                         *)
(* An upgrade request is its path, its Authorization header and its `key`  *)
(* query parameter.  A header is kept as <scheme prefix, rest>, the string *)
(* being their concatenation; an absent header or parameter is Undefined.  *)
(***************************************************************************)
Header(scheme, rest) == [t |-> "hdr", scheme |-> scheme, rest |-> rest]
NoHeader == Undefined

\* `req.headers["authorization"] || ""`
HeaderOrEmpty(h) == IF h = Undefined THEN Header("", "") ELSE h

\* `auth.startsWith("Bearer ")`
StartsWithBearer(h) == h.scheme = "Bearer "

\* `auth.slice(7)`: what follows the 7 characters of "Bearer ".
SliceBearer(h) == JStr(h.rest)

\* const token = auth.startsWith("Bearer ") ? auth.slice(7) : (query?.key || "");
UpgradeToken(req) ==
  LET auth == HeaderOrEmpty(req.authorization)
  IN  IF StartsWithBearer(auth) THEN SliceBearer(auth) ELSE Or(req.key, JStr(""))

\* A gate that asks for a token and a secret but does not compare them.
UpgradeOkNoCompare(token, key) == Truthy(token) /\ Truthy(key)

\* const ok = token && MCP_API_KEY && token === MCP_API_KEY;
UpgradeOk(token, key) == Truthy(token) /\ Truthy(key) /\ token = key

\* The sockets are numbered in the order in which they connect.
FreshSlot(s) == ws[s] = "NONE" /\ \A r \in Slots : r < s => ws[r] # "NONE"

\* The period of the keepalive timer, in milliseconds.
PingPeriod == 30000

\* wss.on("connection"): const pingIv = setInterval(..., 30000)
\* pingIv[s] holds the periods of the timers that run for socket s.
Connection(s) ==
  /\ ws' = [ws EXCEPT ![s] = "OPEN"]
  /\ pingIv' = [pingIv EXCEPT ![s] = Append(@, PingPeriod)]

\* server.on("upgrade", (req, socket, head) => ...)
Upgrade(s, req) ==
  /\ variant = "ws"
  /\ FreshSlot(s)
  /\ IF req.path # "/mcp"
       THEN /\ ws' = [ws EXCEPT ![s] = "DESTROYED"]
            /\ last' = [kind |-> "upgrade", conn |-> s, req |-> req, status |-> 0]
            /\ UNCHANGED pingIv
       ELSE IF MCP_REQUIRE_KEY /\ ~UpgradeOk(UpgradeToken(req), MCP_API_KEY)
         THEN /\ ws' = [ws EXCEPT ![s] = "DESTROYED"]
              /\ last' = [kind |-> "upgrade", conn |-> s, req |-> req, status |-> 401]
              /\ UNCHANGED pingIv
         ELSE /\ Connection(s)
              /\ last' = [kind |-> "upgrade", conn |-> s, req |-> req, status |-> 101]
  /\ UNCHANGED <<config, handlers, posts>>

\* The peer closes (or the socket ends): readyState leaves OPEN.
PeerCloses(s) ==
  /\ ws[s] = "OPEN"
  /\ ws' = [ws EXCEPT ![s] = "CLOSING"]
  /\ UNCHANGED <<config, pingIv, handlers, posts, last>>

\* A close handler that leaves the timer running.
OnCloseKeepsTimer(s) ==
  /\ ws[s] = "CLOSING"
  /\ ws' = [ws EXCEPT ![s] = "CLOSED"]
  /\ UNCHANGED <<config, pingIv, handlers, posts, last>>

\* ws.on("close", () => clearInterval(pingIv))
OnClose(s) ==
  /\ ws[s] = "CLOSING"
  /\ ws' = [ws EXCEPT ![s] = "CLOSED"]
  /\ pingIv' = [pingIv EXCEPT ![s] = <<>>]
  /\ UNCHANGED <<config, handlers, posts, last>>

\* setInterval(() => { if (ws.readyState === WebSocket.OPEN) ws.ping(); }, 30000)
PingTick(s) ==
  /\ pingIv[s] # <<>>
  /\ IF ws[s] = "OPEN"
       THEN last' = [kind |-> "ping", conn |-> s]
       ELSE UNCHANGED last
  /\ UNCHANGED <<config, ws, pingIv, handlers, posts>>

(***************************************************************************)
(* Helpers of the message handler.                                         *)
(***************************************************************************)
\* String(v)
ToStr(v) ==
  CASE v.t = "str" -> v.s
    [] v.t = "num" -> ToString(v.n)
    [] v.t = "null" -> "null"
    [] v.t = "undefined" -> "undefined"
    [] OTHER -> "[object Object]"

\* function jsonrpcResult(id, result)
jsonrpcResult(id, result) ==
  Stringify([jsonrpc |-> JStr("2.0"), id |-> id, result |-> result])

\* function jsonrpcError(id, code, message, data)
jsonrpcError(id, code, message, data) ==
  Stringify([jsonrpc |-> JStr("2.0"), id |-> id,
             error |-> JObj(Stringify([code |-> JNum(code),
                                       message |-> JText(message),
                                       data |-> data]))])

\* The characters of the string literals the inputs use.
Chars(s) ==
  CASE s = "1" -> <<"1">>
    [] s = "2" -> <<"2">>
    [] s = "-1" -> <<"-", "1">>
    [] s = "0" -> <<"0">>
    [] s = "2x" -> <<"2", "x">>
    [] s = " 3" -> <<" ", "3">>
    [] s = "abc" -> <<"a", "b", "c">>
    [] s = "undefined" -> <<"u", "n", "d", "e", "f", "i", "n", "e", "d">>
    [] s = "null" -> <<"n", "u", "l", "l">>
    [] s = "[object Object]" -> <<"[", "o", "b", "j", "e", "c", "t", " ",
                                 "O", "b", "j", "e", "c", "t", "]">>
    [] OTHER -> <<>>

DigitChars == {"0", "1", "2", "3", "4", "5", "6", "7", "8", "9"}
DigitVal(c) ==
  CASE c = "0" -> 0 [] c = "1" -> 1 [] c = "2" -> 2 [] c = "3" -> 3 [] c = "4" -> 4
    [] c = "5" -> 5 [] c = "6" -> 6 [] c = "7" -> 7 [] c = "8" -> 8 [] c = "9" -> 9

NaN == [t |-> "nan"]

RECURSIVE SkipSpace(_)
SkipSpace(cs) == IF cs # <<>> /\ Head(cs) = " " THEN SkipSpace(Tail(cs)) ELSE cs

\* The value of the longest prefix of digits of cs, continuing from acc.
RECURSIVE DigitsPrefix(_, _)
DigitsPrefix(cs, acc) ==
  IF cs # <<>> /\ Head(cs) \in DigitChars
    THEN DigitsPrefix(Tail(cs), acc * 10 + DigitVal(Head(cs)))
    ELSE acc

\* parseInt(string, 10): leading white space, an optional sign, then the longest
\* prefix of digits; NaN when there is no digit.
ParseIntChars(cs) ==
  LET body == SkipSpace(cs)
      neg == body # <<>> /\ Head(body) = "-"
      signed == body # <<>> /\ Head(body) \in {"-", "+"}
      digits == IF signed THEN Tail(body) ELSE body
  IN  IF digits = <<>> \/ Head(digits) \notin DigitChars
        THEN NaN
        ELSE JNum((IF neg THEN -1 ELSE 1) * DigitsPrefix(digits, 0))

\* parseInt(n, 10) of a JavaScript value: of String(n); an integer is its own value.
ParseInt(v) == IF v.t = "num" THEN JNum(v.n) ELSE ParseIntChars(Chars(ToStr(v)))

\* function asNumber(n, def)
asNumber(n, def) ==
  LET x == ParseInt(n) IN IF x.t = "num" THEN x.n ELSE def

DefaultKpisLimit == 1000
DefaultRecordsLimit == 200

\* JavaScript numbers are IEEE 754 doubles.  Integers below 2^53 and their sums
\* are exact; a quotient is rounded.  A double that is not negative is zero, or
\* M / 2^k with a significand M of 53 bits, kept here as two limbs:
\* M = hi * 2^27 + lo with 2^25 <= hi < 2^26 and 0 <= lo < 2^27.
LimbBits == 27
Limb == 2 ^ LimbBits
HiMin == 2 ^ 25
Double(hi, lo, k) == [hi |-> hi, lo |-> lo, k |-> k]
Zero == Double(0, 0, 0)

\* floor(log2(n)) for 1 <= n < 2^31
Log2(n) == CHOOSE e \in 0..30 : 2 ^ e <= n /\ (e = 30 \/ n < 2 ^ (e + 1))

\* Round to nearest, ties to even: the significand hi:lo is incremented when up.
RoundUp(hi, lo, k, up) ==
  IF ~up THEN Double(hi, lo, k)
  ELSE IF lo + 1 < Limb THEN Double(hi, lo + 1, k)
  ELSE IF hi + 1 < 2 * HiMin THEN Double(hi + 1, 0, k)
  ELSE Double(HiMin, 0, k - 1)

\* The double of the integer n, 0 <= n < 2^26.
FromNat(n) ==
  IF n = 0 THEN Zero
  ELSE Double(n * 2 ^ (25 - Log2(n)), 0, 52 - Log2(n))

\* a / b in double arithmetic, for integers 0 <= a and 1 <= b <= 15: long
\* division to 53 significant bits, then rounding on the remainder.
FDiv(a, b) ==
  IF a = 0 THEN Zero
  ELSE
    LET j == CHOOSE i \in 0..4 : a * 2 ^ i >= b /\ (i = 0 \/ a * 2 ^ (i - 1) < b)
        A == a * 2 ^ j
        f == 25 - Log2(A \div b)
        hi == (A * 2 ^ f) \div b
        r1 == (A * 2 ^ f) % b
        lo == (r1 * Limb) \div b
        r2 == (r1 * Limb) % b
    IN  RoundUp(hi, lo, f + LimbBits + j,
                2 * r2 > b \/ (2 * r2 = b /\ lo % 2 = 1))

\* x * n in double arithmetic, for an integer 0 <= n <= 15 and a product
\* below 2^53: the exact product, then rounding on the bits that do not fit.
FMul(x, n) ==
  IF x = Zero \/ n = 0 THEN Zero
  ELSE
    LET plo == (x.lo * n) % Limb
        phi == x.hi * n + (x.lo * n) \div Limb
        d == Log2(phi) - 25
        low == (phi % 2 ^ d) * Limb + plo
        lo == low \div 2 ^ d
        rem == low % 2 ^ d
    IN  IF d = 0 THEN Double(phi, plo, x.k)
        ELSE RoundUp(phi \div 2 ^ d, lo, x.k - d,
                     2 * rem > 2 ^ d \/ (2 * rem = 2 ^ d /\ lo % 2 = 1))

RECURSIVE SumLatency(_)
SumLatency(rows) ==
  IF rows = <<>> THEN 0 ELSE Head(rows).latency_ms + SumLatency(Tail(rows))

CountStatus(rows, status) ==
  Len(SelectSeq(rows, LAMBDA r : r.status = status))

\* A summary whose average is the integer quotient.
computeKpisTruncated(rows) ==
  LET total == Len(rows)
  IN  [total |-> total,
       delivered |-> CountStatus(rows, "DELIVERED"),
       failed |-> CountStatus(rows, "FAILED"),
       blocked |-> CountStatus(rows, "BLOCKED"),
       avgLatency |-> IF total # 0 THEN FromNat(SumLatency(rows) \div total)
                                   ELSE FromNat(0)]

\* function computeKpis(rows)
computeKpis(rows) ==
  LET total == Len(rows)
  IN  [total |-> total,
       delivered |-> CountStatus(rows, "DELIVERED"),
       failed |-> CountStatus(rows, "FAILED"),
       blocked |-> CountStatus(rows, "BLOCKED"),
       avgLatency |-> IF total # 0 THEN FDiv(SumLatency(rows), total)
                                   ELSE FromNat(0)]

\* rows.slice(0, end): a negative end counts from the end of the array.
Slice0(rows, end) ==
  LET n == Len(rows)
      e == IF end < 0 THEN (IF n + end < 0 THEN 0 ELSE n + end)
                      ELSE (IF end > n THEN n ELSE end)
  IN  SubSeq(rows, 1, e)

(***************************************************************************)
(* The upstream data source.  It is outside the program: it holds rows, it  *)
(* may be unreachable, answer a non-2xx status, or answer 200 with rows;   *)
(* it may or may not apply the filters and the limit of the query string.  *)
(***************************************************************************)
Row(id, country, status, latency) ==
  [id |-> id, country |-> country, status |-> status, latency_ms |-> latency]

Data ==
  << Row(1, "BE", "DELIVERED", 10), Row(2, "FR", "FAILED", 20),
     Row(3, "BE", "DELIVERED", 30), Row(4, "BE", "PENDING", 40) >>

\* The integer a `limit` query parameter spells.
LimitValues == (-2..3) \cup {DefaultRecordsLimit, DefaultKpisLimit}
QueryLimit(qs) == CHOOSE n \in LimitValues : ToString(n) = qs.limit

QueryMatches(row, qs) ==
  /\ "country" \in DOMAIN qs => row.country = qs.country
  /\ "status" \in DOMAIN qs => row.status = qs.status

\* The rows of a 200 answer to the query qs, by whether the upstream applies
\* the filters and whether it applies the limit.
UpstreamRows(data, qs, filtering, limiting) ==
  LET sel == IF filtering THEN SelectSeq(data, LAMBDA r : QueryMatches(r, qs)) ELSE data
      n == IF "limit" \in DOMAIN qs THEN QueryLimit(qs) ELSE Len(sel)
  IN  IF limiting /\ n >= 1 /\ n < Len(sel) THEN SubSeq(sel, 1, n) ELSE sel

Rejected == [kind |-> "rejected"]
Answer(status, text) == [kind |-> "answer", status |-> status, text |-> text]
Answer200(rows) == [kind |-> "answer", status |-> 200, rows |-> rows]

Failures == {Rejected, Answer(500, "boom"), Answer(404, "")}
Outcomes(data, qs) ==
  Failures \cup {Answer200(UpstreamRows(data, qs, f, l)) : f \in BOOLEAN, l \in BOOLEAN}

\* resp.ok
RespOk(o) == o.status >= 200 /\ o.status <= 299

NoFetch == [kind |-> "nofetch"]

(***************************************************************************)
(* fetchRows(filters, limit), up to its `await fetch(url, ...)`.           *)
(***************************************************************************)
\* const qs = new URLSearchParams(); ... qs.set("limit", String(limit));
QueryString(filters, limit) ==
  [k \in DOMAIN filters \cup {"limit"} |->
     IF k = "limit" THEN ToString(limit) ELSE filters[k]]

\* if (!DEMO_API_URL) throw new Error("DEMO_API_URL not set");
fetchRowsThrows(url) == ~Truthy(url)

\* After the await: the message of the error fetchRows throws, or <<>> for none.
\* throw new Error(`Demo upstream ${resp.status}: ${text}`)
fetchRowsError(o) ==
  IF o.kind = "rejected" THEN <<"request to ", DemoUrl, " failed">>
  ELSE IF ~RespOk(o) THEN <<"Demo upstream ", ToString(o.status), ": ", o.text>>
  ELSE <<>>

(***************************************************************************)
(* The message handler: ws.on("message", async (msg) => ...).              *)
(*                                                                         *)
(* An inbound frame is text that is the JSON of a value, or text that is   *)
(* not JSON.  Handle is the synchronous part, up to the first await: the   *)
(* handler finishes having sent some frames (none when it drops the        *)
(* message), or suspends on fetchRows with its closure (id, name, limit)   *)
(* and the query string of the fetch it has issued.  `last` shows a        *)
(* handler three times: "handled" when it finishes without a fetch,        *)
(* "fetch" when it suspends, "settled" when it finishes after its fetch.   *)
(***************************************************************************)
JsonFrame(v) == [json |-> TRUE, v |-> v]
NotJson == [json |-> FALSE, v |-> JStr("not json")]

\* A handler that finishes: the frames it passed to ws.send, in order, and
\* whether it closed the socket.
Finish(outs, close) == [do |-> "finish", outs |-> outs, close |-> close]
Return == Finish(<<>>, FALSE)
Send(out) == Finish(<<out>>, FALSE)
Await(id, name, limit, qs) ==
  [do |-> "await", id |-> id, name |-> name, limit |-> limit, qs |-> qs]

\* A catch block that also closes the socket.
CatchAndClose(id, message) ==
  Finish(<<jsonrpcError(id, -32000, <<"Internal error">>, JText(message))>>, TRUE)

\* catch (e) { ws.send(jsonrpcError(id, -32000, "Internal error", String(e?.message || e))); }
Catch(id, message) ==
  Send(jsonrpcError(id, -32000, <<"Internal error">>, JText(message)))

InitializeResult ==
  JObj([protocolVersion |-> "2024-11-05",
        serverInfo |-> [name |-> "proximus-mcp", version |-> "1.0.0"],
        capabilities |-> [tools |-> <<>>]])

ToolsListResult == JObj([tools |-> <<"proximus.kpis", "proximus.records">>])

PingResult == JObj([ok |-> TRUE])

\* const filters = {}; if (args.country) ...; if (args.status) ...
Filters(args) ==
  [k \in {f \in {"country", "status"} : Truthy(Prop(args, f))} |-> ToStr(Prop(args, k))]

\* A dispatch that fetches before it looks at the tool name.
KnownToolAny(name) == TRUE

\* if (name === "proximus.kpis") ... if (name === "proximus.records") ...
KnownTool(name) == name \in {JStr("proximus.kpis"), JStr("proximus.records")}

\* if (method === "tools/call") { ... }
ToolsCall(id, params, url) ==
  LET p == Or(params, EmptyObj)
      name == Prop(p, "name")
      args == PropOr(p, "arguments", EmptyObj)
  IN  IF ~Truthy(name)
        THEN Send(jsonrpcError(id, -32602, <<"Tool name missing">>, Undefined))
      ELSE IF PropThrows(args)
        THEN Catch(id, <<"Cannot read properties of ", ToStr(args)>>)
      ELSE LET limit == asNumber(Prop(args, "limit"),
                                 IF name = JStr("proximus.kpis")
                                   THEN DefaultKpisLimit ELSE DefaultRecordsLimit)
           IN  IF KnownTool(name)
                 THEN IF fetchRowsThrows(url)
                        THEN Catch(id, <<"DEMO_API_URL not set">>)
                        ELSE Await(id, name, limit, QueryString(Filters(args), limit))
                 ELSE Send(jsonrpcError(id, -32601, <<"Unknown tool: ", ToStr(name)>>,
                                        Undefined))

\* A handler that answers a frame it cannot parse with a parse error.
HandleParseError(frame, url) ==
  IF ~frame.json
    THEN Send(jsonrpcError(JNull, -32700, <<"Parse error">>, Undefined))
    ELSE LET req == Or(frame.v, EmptyObj)
             id == Prop(req, "id")
             method == Prop(req, "method")
             params == Prop(req, "params")
         IN  IF ~Truthy(method) THEN Return
             ELSE IF method = JStr("tools/call") THEN ToolsCall(id, params, url)
             ELSE Send(jsonrpcResult(id, PingResult))

Handle(frame, url) ==
  IF ~frame.json THEN Return
  ELSE
    LET req == Or(frame.v, EmptyObj)
        id == Prop(req, "id")
        method == Prop(req, "method")
        params == Prop(req, "params")
    IN  IF ~Truthy(method) THEN Return
        ELSE IF method = JStr("initialize") THEN Send(jsonrpcResult(id, InitializeResult))
        ELSE IF method = JStr("tools/list") THEN Send(jsonrpcResult(id, ToolsListResult))
        ELSE IF method = JStr("tools/call") THEN ToolsCall(id, params, url)
        ELSE IF method = JStr("ping") THEN Send(jsonrpcResult(id, PingResult))
        ELSE Send(jsonrpcError(id, -32601, <<"Unknown method: ", ToStr(method)>>, Undefined))

\* Responses matched to requests by position: the id of the oldest request
\* still in flight.
ResumeIdFifo(hs, h) ==
  hs[CHOOSE k \in DOMAIN hs :
       hs[k].pc = "await" /\ \A j \in DOMAIN hs : hs[j].pc = "await" => k <= j].id

\* The `id` a suspended handler answers with: the constant of its own closure.
ResumeId(hs, h) == hs[h].id

\* A handler whose success path falls through to the error answer.
ResumeTwice(id, h, o) ==
  IF fetchRowsError(o) # <<>> THEN Catch(id, fetchRowsError(o))
  ELSE Finish(<<jsonrpcResult(id, JObj([content |-> "KPIs (from demo data): ",
                                        data |-> computeKpis(o.rows)])),
                jsonrpcError(id, -32601, <<"Unknown method: ", "tools/call">>, Undefined)>>,
              FALSE)

\* The rest of a suspended handler, once fetchRows has settled with outcome o.
Resume(id, h, o) ==
  IF fetchRowsError(o) # <<>> THEN Catch(id, fetchRowsError(o))
  ELSE IF h.name = JStr("proximus.kpis")
    THEN Send(jsonrpcResult(id, JObj([content |-> "KPIs (from demo data): ",
                                      data |-> computeKpis(o.rows)])))
    ELSE Send(jsonrpcResult(id, JObj([content |-> "Records (subset) from demo data: ",
                                      data |-> Slice0(o.rows, h.limit)])))

IsError(out) == "error" \in DOMAIN out
IsResult(out) == "result" \in DOMAIN out

\* What a finished handler leaves behind: whether it answered with an error.
Done(outs) == [pc |-> "done", failed |-> \E i \in DOMAIN outs : IsError(outs[i])]

\* ws.send(data): the frame goes out on an OPEN socket and is discarded otherwise.
\* The socket after a handler has finished on it.
AfterHandler(s, r) ==
  ws' = IF r.close /\ ws[s] = "OPEN" THEN [ws EXCEPT ![s] = "CLOSING"] ELSE ws

OnMessage(s, frame) ==
  /\ ws[s] = "OPEN"
  /\ Len(handlers) < MaxMsgs
  /\ LET r == Handle(frame, DEMO_API_URL)
         h == Len(handlers) + 1
     IN  IF r.do = "finish"
           THEN /\ handlers' = Append(handlers, Done(r.outs))
                /\ last' = [kind |-> "handled", conn |-> s, h |-> h, frame |-> frame,
                            outs |-> r.outs, written |-> TRUE]
                /\ AfterHandler(s, r)
           ELSE /\ handlers' = Append(handlers,
                       [conn |-> s, pc |-> "await", id |-> r.id, name |-> r.name,
                        limit |-> r.limit, qs |-> r.qs])
                /\ last' = [kind |-> "fetch", conn |-> s, h |-> h, frame |-> frame,
                            qs |-> r.qs]
                /\ UNCHANGED ws
  /\ UNCHANGED <<config, pingIv, posts>>

\* An event loop that resumes the suspended handlers in the order they began.
FetchSettledInOrder(h) ==
  /\ h \in DOMAIN handlers
  /\ handlers[h].pc = "await"
  /\ \A j \in 1..(h - 1) : handlers[j].pc = "done"
  /\ \E o \in Outcomes(upstream, handlers[h].qs) :
       LET r == Resume(ResumeId(handlers, h), handlers[h], o)
           s == handlers[h].conn
       IN  /\ handlers' = [handlers EXCEPT ![h] = Done(r.outs)]
           /\ last' = [kind |-> "settled", conn |-> s, h |-> h, closure |-> handlers[h],
                       upstream |-> o, outs |-> r.outs, written |-> ws[s] = "OPEN"]
           /\ AfterHandler(s, r)
  /\ UNCHANGED <<config, pingIv, posts>>

\* The upstream fetch of handler h settles and the handler runs to its end.
FetchSettled(h) ==
  /\ h \in DOMAIN handlers
  /\ handlers[h].pc = "await"
  /\ \E o \in Outcomes(upstream, handlers[h].qs) :
       LET r == Resume(ResumeId(handlers, h), handlers[h], o)
           s == handlers[h].conn
       IN  /\ handlers' = [handlers EXCEPT ![h] = Done(r.outs)]
           /\ last' = [kind |-> "settled", conn |-> s, h |-> h, closure |-> handlers[h],
                       upstream |-> o, outs |-> r.outs, written |-> ws[s] = "OPEN"]
           /\ AfterHandler(s, r)
  /\ UNCHANGED <<config, pingIv, posts>>

(***************************************************************************)
(* The HTTP variant: app.post("/query", auth, async (req, res) => ...).    *)
(*                                                                         *)
(* A request is its Authorization header and its JSON body.                *)
(***************************************************************************)
HttpReply(status, body) == [status |-> status, body |-> body]
CallsNext == [status |-> 0]

\* crypto.timingSafeEqual(a, b): throws a RangeError unless both have the same
\* byte length, otherwise tells whether they are equal.
timingSafeEqualThrows(a, b) == Len(a) # Len(b)

\* A gate that lets every request through when no secret is configured.
authOpenWithoutSecret(req, requireKey, key) ==
  IF ~requireKey \/ ~Truthy(key) THEN CallsNext
  ELSE
    LET hdr == HeaderOrEmpty(req.authorization)
        tok == IF StartsWithBearer(hdr) THEN SliceBearer(hdr) ELSE JStr("")
    IN  IF ~Truthy(tok)
          THEN HttpReply(401, [error |-> "missing/invalid token"])
        ELSE IF timingSafeEqualThrows(tok.s, key.s)
          THEN HttpReply(500, [error |-> "RangeError"])
        ELSE IF tok.s # key.s
          THEN HttpReply(401, [error |-> "unauthorized"])
        ELSE CallsNext

\* function auth(req, res, next): the reply it sends, or CallsNext when it calls
\* next().  An exception in a middleware is answered by Express with status 500.
auth(req, requireKey, key) ==
  IF ~requireKey THEN CallsNext
  ELSE
    LET hdr == HeaderOrEmpty(req.authorization)
        tok == IF StartsWithBearer(hdr) THEN SliceBearer(hdr) ELSE JStr("")
    IN  IF ~Truthy(tok) \/ ~Truthy(key)
          THEN HttpReply(401, [error |-> "missing/invalid token"])
        ELSE IF timingSafeEqualThrows(tok.s, key.s)
          THEN HttpReply(500, [error |-> "RangeError"])
        ELSE IF tok.s # key.s
          THEN HttpReply(401, [error |-> "unauthorized"])
        ELSE CallsNext

\* `filters?.country`
OptProp(v, k) == IF PropThrows(v) THEN Undefined ELSE Prop(v, k)

\* const qs = new URLSearchParams(); if (filters?.country) ...; if (filters?.status) ...
QueryFilters(filters) ==
  [k \in {f \in {"country", "status"} : Truthy(OptProp(filters, f))} |->
     ToStr(OptProp(filters, k))]

\* The handler up to its `await fetch(url, ...)`: a reply, or the suspension.
Query(req, url) ==
  IF ~Truthy(url)
    THEN [do |-> "reply", reply |-> HttpReply(500, [error |-> "DEMO_API_URL not set"])]
  ELSE
    LET body == Or(req.body, EmptyObj)
        resource == Prop(body, "resource")
        filters == Prop(body, "filters")
    IN  IF ~Truthy(resource)
          THEN [do |-> "reply", reply |-> HttpReply(400, [error |-> "resource is required"])]
          ELSE [do |-> "await", resource |-> resource, qs |-> QueryFilters(filters)]

\* The rest of the handler, once the fetch has settled with outcome o.
QueryResume(p, o) ==
  IF o.kind = "rejected"
    THEN HttpReply(500, [error |-> "internal error",
                         details |-> <<"request to ", DemoUrl, " failed">>])
  ELSE IF ~RespOk(o)
    THEN HttpReply(502, [error |-> "upstream demo error", details |-> <<o.text>>])
  ELSE IF p.resource = JStr("kpis")
    THEN HttpReply(200, [ok |-> TRUE, data |-> computeKpis(o.rows)])
  ELSE IF p.resource = JStr("records")
    THEN HttpReply(200, [ok |-> TRUE, data |-> Slice0(o.rows, 200)])
  ELSE HttpReply(400, [error |-> "unknown resource", resource |-> p.resource])

Answered(reply) == [pc |-> "done", status |-> reply.status]

\* `last` shows a request three times: "reply" when it is answered without a
\* fetch (by auth, or by the route handler: ran), "queryfetch" when its handler
\* suspends, "queryreply" when it is answered after its fetch.
PostQuery(req) ==
  /\ variant = "http"
  /\ Len(posts) < MaxPosts
  /\ LET a == auth(req, MCP_REQUIRE_KEY, MCP_API_KEY)
         r == Query(req, DEMO_API_URL)
         k == Len(posts) + 1
     IN  IF a # CallsNext
           THEN /\ posts' = Append(posts, Answered(a))
                /\ last' = [kind |-> "reply", k |-> k, req |-> req, reply |-> a,
                            ran |-> FALSE]
         ELSE IF r.do = "reply"
           THEN /\ posts' = Append(posts, Answered(r.reply))
                /\ last' = [kind |-> "reply", k |-> k, req |-> req, reply |-> r.reply,
                            ran |-> TRUE]
           ELSE /\ posts' = Append(posts, [pc |-> "await", resource |-> r.resource,
                                           qs |-> r.qs])
                /\ last' = [kind |-> "queryfetch", k |-> k, req |-> req, qs |-> r.qs]
  /\ UNCHANGED <<config, ws, pingIv, handlers>>

QueryFetchSettled(k) ==
  /\ k \in DOMAIN posts
  /\ posts[k].pc = "await"
  /\ \E o \in Outcomes(upstream, posts[k].qs) :
       LET reply == QueryResume(posts[k], o)
       IN  /\ posts' = [posts EXCEPT ![k] = Answered(reply)]
           /\ last' = [kind |-> "queryreply", k |-> k, closure |-> posts[k],
                       upstream |-> o, reply |-> reply]
  /\ UNCHANGED <<config, ws, pingIv, handlers>>

(***************************************************************************)
(* The inputs: upgrade requests, inbound frames and POST /query requests.  *)
(***************************************************************************)
UpgradeReq(path, authorization, key) ==
  [path |-> path, authorization |-> authorization, key |-> key]

\* Tokens shorter than the secret, as long as it, and longer.
WrongTokens == {"wrong", "s3cr3t", "s3cret-x"}

AuthHeaders ==
  {NoHeader, Header("Bearer ", Secret), Header("Bearer ", ""), Header("Basic ", Secret)}
    \cup {Header("Bearer ", w) : w \in WrongTokens}

UpgradeReqs ==
  {UpgradeReq("/mcp", a, k) :
     a \in AuthHeaders, k \in {Undefined, JStr(""), JStr(Secret), JStr("wrong")}}
    \cup {UpgradeReq("/other", NoHeader, Undefined)}

Anonymous == UpgradeReq("/mcp", NoHeader, Undefined)

\* A request a client serializes: JSON.stringify omits what it does not set.
Request(id, method, params) ==
  JsonFrame(JObj(Stringify([id |-> id, method |-> method, params |-> params])))
Call(name, arguments) == JObj(Stringify([name |-> name, arguments |-> arguments]))

Ids == {Undefined, JNull, JNum(1), JNum(2)}
Methods ==
  {JStr("initialize"), JStr("tools/list"), JStr("tools/call"), JStr("ping"),
   JStr("resources/list")}
ToolNames ==
  {Undefined, JStr(""), JStr("proximus.kpis"), JStr("proximus.records"), JStr("bogus")}
ArgumentShapes == {Undefined, JNull, JNum(5)}

Droppable ==
  {NotJson, JsonFrame(JNull), JsonFrame(JStr("hello")),
   Request(JNum(1), Undefined, Undefined), Request(JNum(1), JStr(""), Undefined)}

Frames ==
  Droppable
    \cup {Request(id, m, Undefined) : id \in Ids, m \in Methods}
    \cup {Request(id, JStr("tools/call"), JNull) : id \in Ids}
    \cup {Request(id, JStr("tools/call"), Call(n, a)) :
            id \in Ids, n \in ToolNames, a \in ArgumentShapes}

\* Tool calls over the shapes of `arguments`.
Arguments ==
  {JObj(Stringify([country |-> c, status |-> st, limit |-> l])) :
     c \in {Undefined, JStr("BE")}, st \in {Undefined, JStr("DELIVERED")},
     l \in {Undefined, JNum(1), JNum(3)}}
DataFrames ==
  {Request(JNum(1), JStr("tools/call"), Call(n, a)) :
     n \in {JStr("proximus.kpis"), JStr("proximus.records")}, a \in Arguments}

\* The values of `arguments.limit`: absent, null, not a number, zero, negative,
\* a numeric string, an integer, digits followed by something else.
LimitShapes ==
  {Undefined, JNull, JStr("abc"), JNum(0), JNum(-1), JStr("2"), JNum(2), JStr("2x")}
LimitFrames ==
  {Request(JNum(1), JStr("tools/call"), Call(n, JObj(Stringify([limit |-> l])))) :
     n \in {JStr("proximus.kpis"), JStr("proximus.records")}, l \in LimitShapes}

GateFrames ==
  {Request(JNum(1), JStr("ping"), Undefined),
   Request(JNum(1), JStr("tools/call"), Call(JStr("proximus.kpis"), Undefined))}

PostReq(authorization, body) == [authorization |-> authorization, body |-> body]
QueryBody(resource, filters) ==
  JObj(Stringify([resource |-> resource, filters |-> filters]))

Bodies ==
  {Undefined}
    \cup {QueryBody(r, f) : r \in {Undefined, JStr("kpis"), JStr("records"), JStr("bogus")},
                            f \in {Undefined, JObj([status |-> JStr("DELIVERED")])}}
Posts == {PostReq(NoHeader, b) : b \in Bodies}
GatePosts == {PostReq(a, QueryBody(JStr("kpis"), Undefined)) : a \in AuthHeaders}
FewPosts == {PostReq(NoHeader, Undefined), PostReq(NoHeader, QueryBody(JStr("kpis"), Undefined))}

\* Row sets the upstream may hold: every short one over the statuses and two
\* latencies, and longer ones of delivered rows over the same latencies.
Statuses == {"DELIVERED", "FAILED", "BLOCKED", "PENDING"}
Latencies == {4, 5}
RowsOf(n, statuses) ==
  {[i \in 1..n |-> Row(i, "BE", f[i][1], f[i][2])] :
     f \in [1..n -> statuses \X Latencies]}
RowSets ==
  UNION {RowsOf(n, Statuses) : n \in 0..2}
    \cup UNION {RowsOf(n, {"DELIVERED"}) : n \in 3..MaxRows}

KpisCall == Request(JNum(1), JStr("tools/call"), Call(JStr("proximus.kpis"), Undefined))
KpisPost == PostReq(NoHeader, QueryBody(JStr("kpis"), Undefined))

(***************************************************************************)
(* The specifications.  Init is the process after it has read its          *)
(* configuration: every configuration, no socket, no request.  The         *)
(* specifications take the same steps and differ in the inputs they draw:  *)
(*   Spec      every shape of frame, on one connection that needs no key;  *)
(*   SpecGate  every upgrade request and Authorization header, and one     *)
(*             message or request behind the gate;                         *)
(*   SpecData  one tool call at a time, over the shapes of its arguments;  *)
(*   SpecHttp  every body of POST /query;                                  *)
(*   SpecLimit one tool call at a time, over the values of its limit;      *)
(*   SpecKpis  one KPI request at a time, over the rows of the upstream;   *)
(*   FairSpec  one connection whose fetches settle in the end;             *)
(*   FairHang  two connections and an upstream that leaves some fetches    *)
(*             pending for ever.                                           *)
(***************************************************************************)
NoStep == [kind |-> "none"]

Init ==
  /\ variant \in {"ws", "http"}
  /\ MCP_REQUIRE_KEY \in BOOLEAN
  /\ MCP_API_KEY \in ApiKeyValues
  /\ DEMO_API_URL \in DemoUrlValues
  /\ upstream = Data
  /\ ws = [s \in Slots |-> "NONE"]
  /\ pingIv = [s \in Slots |-> <<>>]
  /\ handlers = <<>>
  /\ posts = <<>>
  /\ last = NoStep

InitOpen == Init /\ ~MCP_REQUIRE_KEY /\ MCP_API_KEY = JNull

Next ==
  \/ Upgrade(1, Anonymous)
  \/ \E s \in Slots : PeerCloses(s)
  \/ \E s \in Slots : OnClose(s)
  \/ \E s \in Slots : PingTick(s)
  \/ \E s \in Slots, frame \in Frames : OnMessage(s, frame)
  \/ \E h \in DOMAIN handlers : FetchSettled(h)
  \/ \E req \in FewPosts : PostQuery(req)
  \/ \E k \in DOMAIN posts : QueryFetchSettled(k)

Spec == InitOpen /\ [][Next]_vars

NextGate ==
  \/ \E s \in Slots, req \in UpgradeReqs : Upgrade(s, req)
  \/ \E s \in Slots : PeerCloses(s)
  \/ \E s \in Slots : OnClose(s)
  \/ \E s \in Slots : PingTick(s)
  \/ \E s \in Slots, frame \in GateFrames : handlers = <<>> /\ OnMessage(s, frame)
  \/ \E h \in DOMAIN handlers : FetchSettled(h)
  \/ \E req \in GatePosts : posts = <<>> /\ PostQuery(req)
  \/ \E k \in DOMAIN posts : QueryFetchSettled(k)

SpecGate == Init /\ [][NextGate]_vars

NextData ==
  \/ \E s \in Slots : Upgrade(s, Anonymous)
  \/ \E s \in Slots : PeerCloses(s)
  \/ \E s \in Slots : OnClose(s)
  \/ \E s \in Slots : PingTick(s)
  \/ \E s \in Slots, frame \in DataFrames : handlers = <<>> /\ OnMessage(s, frame)
  \/ \E h \in DOMAIN handlers : FetchSettled(h)
  \/ \E req \in FewPosts : posts = <<>> /\ PostQuery(req)
  \/ \E k \in DOMAIN posts : QueryFetchSettled(k)

SpecData == InitOpen /\ [][NextData]_vars

NextHttp ==
  \/ \E s \in Slots : Upgrade(s, Anonymous)
  \/ \E s \in Slots : PeerCloses(s)
  \/ \E s \in Slots : OnClose(s)
  \/ \E s \in Slots : PingTick(s)
  \/ \E s \in Slots, frame \in GateFrames : OnMessage(s, frame)
  \/ \E h \in DOMAIN handlers : FetchSettled(h)
  \/ \E req \in Posts : PostQuery(req)
  \/ \E k \in DOMAIN posts : QueryFetchSettled(k)

SpecHttp == InitOpen /\ [][NextHttp]_vars

\* One connection of the WebSocket server, every branch of its message handler.
LiveFrames ==
  Droppable
    \cup {Request(JNum(1), m, Undefined) : m \in Methods}
    \cup {Request(JNum(1), JStr("tools/call"), Call(n, a)) :
            n \in ToolNames, a \in {Undefined, JNull}}

NextLive ==
  \/ Upgrade(1, Anonymous)
  \/ PeerCloses(1)
  \/ OnClose(1)
  \/ PingTick(1)
  \/ \E frame \in LiveFrames : OnMessage(1, frame)
  \/ \E h \in DOMAIN handlers : FetchSettled(h)

\* A pending fetch settles in the end: it returns or it fails.
InitLive == InitOpen /\ variant = "ws"
SpecLive == InitLive /\ [][NextLive]_vars
FairSpec == SpecLive /\ WF_vars(\E h \in DOMAIN handlers : FetchSettled(h))

\* The WebSocket server, one tool call at a time over the values of its limit.
NextLimit ==
  \/ \E s \in Slots : Upgrade(s, Anonymous)
  \/ \E s \in Slots : PeerCloses(s)
  \/ \E s \in Slots : OnClose(s)
  \/ \E s \in Slots : PingTick(s)
  \/ \E s \in Slots, frame \in LimitFrames : handlers = <<>> /\ OnMessage(s, frame)
  \/ \E h \in DOMAIN handlers : FetchSettled(h)

SpecLimit == InitLive /\ [][NextLimit]_vars

\* Both servers over the row sets of the upstream: one KPI request at a time.
InitKpis ==
  /\ variant \in {"ws", "http"}
  /\ MCP_REQUIRE_KEY = FALSE
  /\ MCP_API_KEY = JNull
  /\ DEMO_API_URL = JStr(DemoUrl)
  /\ upstream \in RowSets
  /\ ws = [s \in Slots |-> "NONE"]
  /\ pingIv = [s \in Slots |-> <<>>]
  /\ handlers = <<>>
  /\ posts = <<>>
  /\ last = NoStep

NextKpis ==
  \/ Upgrade(1, Anonymous)
  \/ handlers = <<>> /\ OnMessage(1, KpisCall)
  \/ \E h \in DOMAIN handlers : FetchSettled(h)
  \/ posts = <<>> /\ PostQuery(KpisPost)
  \/ \E k \in DOMAIN posts : QueryFetchSettled(k)

SpecKpis == InitKpis /\ [][NextKpis]_vars

\* The WebSocket server in front of an upstream that never answers the queries
\* for one country: the fetch of such a query stays pending for ever.  Every
\* other fetch settles in the end.
HangCountry == "XX"
Hangs(qs) == "country" \in DOMAIN qs /\ qs.country = HangCountry
PingFrame == Request(JNum(1), JStr("ping"), Undefined)
HangFrames ==
  {PingFrame, Request(JNum(1), JStr("initialize"), Undefined),
   Request(JNum(1), JStr("tools/list"), Undefined),
   Request(JNum(2), JStr("tools/call"), Call(JStr("proximus.kpis"), Undefined)),
   Request(JNum(3), JStr("tools/call"),
           Call(JStr("proximus.kpis"), JObj([country |-> JStr(HangCountry)])))}

Answers(h) ==
  /\ h \in DOMAIN handlers
  /\ handlers[h].pc = "await"
  /\ ~Hangs(handlers[h].qs)
  /\ FetchSettled(h)

NextHang ==
  \/ \E s \in Slots : Upgrade(s, Anonymous)
  \/ \E s \in Slots : PingTick(s)
  \/ \E s \in Slots, frame \in HangFrames : OnMessage(s, frame)
  \/ \E h \in 1..MaxMsgs : Answers(h)

SpecHang == InitLive /\ [][NextHang]_vars
FairHang == SpecHang /\ WF_vars(\E h \in 1..MaxMsgs : Answers(h))

(***************************************************************************)
(* Vocabulary of the properties.                                           *)
(***************************************************************************)
\* The `id` member of a request, Undefined when the request has none.
IdOf(frame) ==
  IF frame.json /\ frame.v.t = "obj" /\ "id" \in DOMAIN frame.v.o
    THEN frame.v.o.id ELSE Undefined

\* The response carries exactly that id: no `id` member for an absent one.
SameId(out, id) ==
  IF id = Undefined THEN "id" \notin DOMAIN out
                    ELSE "id" \in DOMAIN out /\ out.id = id

\* The member k of the request object, Undefined when there is none.
Member(frame, k) ==
  IF frame.json /\ frame.v.t = "obj" /\ k \in DOMAIN frame.v.o
    THEN frame.v.o[k] ELSE Undefined

\* A step of a message handler is shown in `last`.
HandlerStep == last.kind \in {"handled", "fetch", "settled"}
\* The handler finished in that step: `outs` are the frames it sent.
Finished == last.kind \in {"handled", "settled"}

ErrorCode(out) == out.error.o.code.n

(***************************************************************************)
(* C1.  With MCP_REQUIRE_KEY set, an upgrade request on /mcp whose         *)
(* presented token (the Bearer token of the Authorization header,          *)
(* otherwise the `key` query parameter) is absent or differs from the      *)
(* configured secret is answered 401 and its socket destroyed; a destroyed *)
(* socket stays destroyed and never has a connection, a keepalive timer,   *)
(* a handled message, a response or an upstream fetch.                     *)
(***************************************************************************)
Presented(req) ==
  IF req.authorization # Undefined /\ req.authorization.scheme = "Bearer "
    THEN req.authorization.rest
  ELSE IF req.key # Undefined THEN req.key.s
  ELSE ""

BadToken(req) == Presented(req) = "" \/ JStr(Presented(req)) # MCP_API_KEY

C1_RefusedState ==
  /\ (last.kind = "upgrade" /\ MCP_REQUIRE_KEY /\ last.req.path = "/mcp"
        /\ BadToken(last.req))
       => (last.status = 401 /\ ws[last.conn] = "DESTROYED")
  /\ \A s \in Slots :
       ws[s] = "DESTROYED" =>
         /\ pingIv[s] = <<>>
         /\ \A h \in DOMAIN handlers : handlers[h].pc = "await" => handlers[h].conn # s
         /\ (HandlerStep \/ last.kind = "ping") => last.conn # s

C1_Refused ==
  /\ []C1_RefusedState
  /\ [][\A s \in Slots : ws[s] = "DESTROYED" => ws'[s] = "DESTROYED"]_vars

\* A token that differs from the configured secret has been refused.
C1_Witness ==
  /\ last.kind = "upgrade" /\ last.status = 401 /\ MCP_REQUIRE_KEY
  /\ MCP_API_KEY = JStr(Secret) /\ Presented(last.req) = "wrong"
  /\ ws[last.conn] = "DESTROYED"

(***************************************************************************)
(* C2.  On one connection, with any number of requests in flight and in    *)
(* any order of completion, every response carries the id of the request   *)
(* that caused it, unchanged: a null id stays null, an absent id stays     *)
(* absent.  A handler that answers at once answers with the id of its      *)
(* frame; a handler that suspends keeps the id of its frame in its closure *)
(* and answers with it when its fetch settles.                             *)
(***************************************************************************)
C2_ResponseId ==
  /\ last.kind = "handled" =>
       \A i \in DOMAIN last.outs : SameId(last.outs[i], IdOf(last.frame))
  /\ last.kind = "fetch" => handlers[last.h].id = IdOf(last.frame)
  /\ last.kind = "settled" =>
       \A i \in DOMAIN last.outs : SameId(last.outs[i], last.closure.id)

\* Two requests with different ids are in flight and the later one is answered
\* first.
C2_Witness ==
  /\ last.kind = "settled" /\ last.h = 2 /\ last.written
  /\ handlers[1].pc = "await" /\ handlers[1].conn = last.conn
  /\ handlers[1].id # last.closure.id
  /\ last.closure.id = JNull /\ last.outs[1].id = JNull

(***************************************************************************)
(* C3.  On a connection that stays open, a message that parses as JSON and *)
(* has a method (one the handler does not take for missing: not falsy)     *)
(* gets exactly one response: a handler that finishes has sent one frame,  *)
(* never two, and a handler suspended on its fetch finishes once the fetch *)
(* returns or fails (handlers that finished stay finished, so this is: the *)
(* state where no handler is left suspended comes back again and again).   *)
(***************************************************************************)
HasMethod(frame) == Truthy(Member(frame, "method"))

C3_OneResponseState ==
  /\ (last.kind = "handled" /\ HasMethod(last.frame)) =>
        (Len(last.outs) = 1 /\ last.written)
  /\ last.kind = "fetch" => HasMethod(last.frame)
  /\ last.kind = "settled" =>
        (Len(last.outs) = 1 /\ (ws[last.conn] = "OPEN" => last.written))

C3_OneResponse ==
  /\ []C3_OneResponseState
  /\ []<>(\A h \in DOMAIN handlers : handlers[h].pc = "done")

\* A tools/call has been answered, once, after its fetch, on an open connection.
C3_Witness ==
  /\ last.kind = "settled" /\ Len(last.outs) = 1 /\ last.written
  /\ ws[last.conn] = "OPEN" /\ handlers[last.h].pc = "done"

(***************************************************************************)
(* C4.  A tools/call whose params.name is present and is neither           *)
(* proximus.kpis nor proximus.records is answered with one error that      *)
(* carries the id of the request, never with a result, and issues no       *)
(* upstream fetch, whatever params.arguments is.                           *)
(***************************************************************************)
UnknownToolCall(frame) ==
  /\ Member(frame, "method") = JStr("tools/call")
  /\ Member(frame, "params").t = "obj"
  /\ "name" \in DOMAIN Member(frame, "params").o
  /\ Member(frame, "params").o.name
       \notin {JStr("proximus.kpis"), JStr("proximus.records")}

C4_UnknownTool ==
  (last.kind \in {"handled", "fetch"} /\ UnknownToolCall(last.frame)) =>
    /\ last.kind = "handled"
    /\ Len(last.outs) = 1
    /\ IsError(last.outs[1]) /\ ~IsResult(last.outs[1])
    /\ SameId(last.outs[1], IdOf(last.frame))

\* An unknown tool called with null arguments and a null id has been answered.
C4_Witness ==
  /\ last.kind = "handled" /\ UnknownToolCall(last.frame)
  /\ Member(last.frame, "params").o.name = JStr("bogus")
  /\ Prop(Member(last.frame, "params"), "arguments") = JNull
  /\ IdOf(last.frame) = JNull /\ IsError(last.outs[1])

(***************************************************************************)
(* C5.  Protocol errors have fixed codes for every shape of params: a      *)
(* tools/call without params.name answers -32602; a tools/call with an     *)
(* unrecognized params.name answers -32601, also when params.arguments is  *)
(* null or not an object; a method other than initialize, tools/list,      *)
(* tools/call and ping answers -32601.  None of them answers -32000 or a   *)
(* result.                                                                 *)
(***************************************************************************)
ToolName(frame) == Prop(Or(Member(frame, "params"), EmptyObj), "name")

ExpectedCode(frame) ==
  IF Member(frame, "method") = JStr("tools/call")
    THEN IF ToolName(frame) = Undefined THEN -32602
         ELSE IF Truthy(ToolName(frame))
                   /\ ToolName(frame) \notin {JStr("proximus.kpis"), JStr("proximus.records")}
           THEN -32601
         ELSE 0
  ELSE IF HasMethod(frame)
            /\ Member(frame, "method") \notin
                 {JStr("initialize"), JStr("tools/list"), JStr("ping")}
    THEN -32601
  ELSE 0

C5_FixedCodes ==
  (last.kind \in {"handled", "fetch"} /\ ExpectedCode(last.frame) # 0) =>
    /\ last.kind = "handled"
    /\ Len(last.outs) = 1
    /\ IsError(last.outs[1]) /\ ~IsResult(last.outs[1])
    /\ ErrorCode(last.outs[1]) = ExpectedCode(last.frame)

(***************************************************************************)
(* C6.  A message that is not valid JSON, or that parses to a value with   *)
(* no method or a falsy one, is dropped: the handler finishes without      *)
(* sending a frame and without a fetch, and its step leaves the socket     *)
(* open and the keepalive timer as it was.                                 *)
(***************************************************************************)
C6_DroppedState ==
  (last.kind \in {"handled", "fetch"} /\ ~HasMethod(last.frame)) =>
    (last.kind = "handled" /\ last.outs = <<>> /\ handlers[last.h].pc = "done")

C6_Dropped ==
  /\ []C6_DroppedState
  /\ [][(handlers' # handlers /\ last'.kind = "handled" /\ ~HasMethod(last'.frame))
          => (ws' = ws /\ pingIv' = pingIv /\ ws[last'.conn] = "OPEN"
              /\ pingIv[last'.conn] # <<>>)]_vars

\* A frame that is not JSON has been dropped.
C6_Witness ==
  /\ last.kind = "handled" /\ ~last.frame.json /\ last.outs = <<>>
  /\ ws[last.conn] = "OPEN" /\ pingIv[last.conn] # <<>>

(***************************************************************************)
(* C7.  In both variants, when the upstream answers a non-2xx status the   *)
(* caller gets an error (a JSON-RPC error on the WebSocket, HTTP 502 or    *)
(* 500 on POST /query) whose diagnostic detail includes the upstream's     *)
(* status code, with no rows and no KPI summary.                           *)
(***************************************************************************)
Non2xx(o) == o.kind = "answer" /\ ~RespOk(o)
Includes(parts, word) == \E i \in DOMAIN parts : parts[i] = word

C7_UpstreamStatus ==
  /\ (last.kind = "settled" /\ Non2xx(last.upstream)) =>
       /\ Len(last.outs) = 1
       /\ IsError(last.outs[1]) /\ ~IsResult(last.outs[1])
       /\ "data" \in DOMAIN last.outs[1].error.o
       /\ Includes(last.outs[1].error.o.data.parts, ToString(last.upstream.status))
  /\ (last.kind = "queryreply" /\ Non2xx(last.upstream)) =>
       /\ last.reply.status \in {500, 502}
       /\ "data" \notin DOMAIN last.reply.body
       /\ "details" \in DOMAIN last.reply.body
       /\ Includes(last.reply.body.details, ToString(last.upstream.status))

(***************************************************************************)
(* C8.  No protocol error and no upstream fetch error closes the           *)
(* connection or cancels its keepalive: the step of a handler that answers *)
(* with an error leaves the sockets and the timers as they were, and an    *)
(* open connection always has its timer, so the next message is handled.   *)
(***************************************************************************)
AnswersError(outs) == \E i \in DOMAIN outs : IsError(outs[i])

C8_ErrorsKeepOpen ==
  /\ [](\A s \in Slots : ws[s] = "OPEN" => pingIv[s] # <<>>)
  /\ [][(handlers' # handlers /\ last'.kind \in {"handled", "settled"}
           /\ AnswersError(last'.outs))
          => (ws' = ws /\ pingIv' = pingIv)]_vars

\* After a request that failed, the next request on the same open connection
\* has been answered with a result.
C8_Witness ==
  /\ Len(handlers) = 2 /\ handlers[1].pc = "done" /\ handlers[1].failed
  /\ last.kind \in {"handled", "settled"} /\ last.h = 2 /\ last.written
  /\ Len(last.outs) = 1 /\ IsResult(last.outs[1])
  /\ ws[last.conn] = "OPEN" /\ pingIv[last.conn] # <<>>

(***************************************************************************)
(* C9.  For every row set the upstream returns and every filter, what      *)
(* proximus.records returns and proximus.kpis aggregates are exactly the   *)
(* fetched rows whose country and status equal every filter field that is  *)
(* given: a fetched row that does not match is never returned or counted.  *)
(***************************************************************************)
Answered200(o) == o.kind = "answer" /\ RespOk(o)
Matching(rows, qs) == SelectSeq(rows, LAMBDA r : QueryMatches(r, qs))
ResultData(out) == out.result.o.data

C9_OnlyMatchingRows ==
  (last.kind = "settled" /\ Answered200(last.upstream)) =>
    /\ Len(last.outs) = 1 /\ IsResult(last.outs[1])
    /\ IF last.closure.name = JStr("proximus.kpis")
         THEN ResultData(last.outs[1])
                = computeKpis(Matching(last.upstream.rows, last.closure.qs))
         ELSE ResultData(last.outs[1])
                = Slice0(Matching(last.upstream.rows, last.closure.qs), last.closure.limit)

(***************************************************************************)
(* C10.  The KPI summary of proximus.kpis does not depend on `limit`: with *)
(* an upstream that applies the filters and the limit it is sent, the      *)
(* summary is the one of the full filtered set, the same for every limit,  *)
(* never the one of a prefix of `limit` rows.                              *)
(***************************************************************************)
C10_KpisOverFullSet ==
  (/\ last.kind = "settled" /\ Answered200(last.upstream)
   /\ last.closure.name = JStr("proximus.kpis")
   /\ last.upstream.rows = UpstreamRows(upstream, last.closure.qs, TRUE, TRUE)) =>
    /\ Len(last.outs) = 1 /\ IsResult(last.outs[1])
    /\ ResultData(last.outs[1])
         = computeKpis(UpstreamRows(upstream, last.closure.qs, TRUE, FALSE))

(***************************************************************************)
(* C11.  Whatever arguments.limit of a tools/call is (absent, not a        *)
(* number, zero, negative, a numeric string, an integer), the limit the    *)
(* call sends upstream and truncates with is an integer >= 1, and it is    *)
(* the default (1000 for proximus.kpis, 200 for proximus.records) when     *)
(* the value is absent or not a number.                                    *)
(***************************************************************************)
\* arguments.k of a tools/call frame.
Argument(frame, k) == Prop(Prop(Member(frame, "params"), "arguments"), k)
CalledTool(frame) == Prop(Member(frame, "params"), "name")
NotNumeric(v) == v \in {Undefined, JNull, JStr("abc")}
DefaultLimit(name) == IF name = JStr("proximus.kpis") THEN 1000 ELSE 200

C11_PositiveLimit ==
  last.kind = "fetch" =>
    LET effective == handlers[last.h].limit
    IN  /\ effective >= 1
        /\ last.qs.limit = ToString(effective)
        /\ NotNumeric(Argument(last.frame, "limit"))
             => effective = DefaultLimit(CalledTool(last.frame))

(***************************************************************************)
(* C12.  A proximus.records call with arguments.limit = L over n fetched   *)
(* matching rows returns exactly the first min(L, n) of them, in fetch     *)
(* order and unmodified: never more than L rows, never a row of that       *)
(* prefix missing.                                                         *)
(***************************************************************************)
Min(a, b) == IF a < b THEN a ELSE b
AllMatch(rows, qs) == \A i \in DOMAIN rows : QueryMatches(rows[i], qs)

C12_FirstLimitRows ==
  (/\ last.kind = "settled" /\ Answered200(last.upstream)
   /\ last.closure.name = JStr("proximus.records")
   /\ AllMatch(last.upstream.rows, last.closure.qs)) =>
    LET L == last.closure.limit
        n == Len(last.upstream.rows)
    IN  /\ Len(last.outs) = 1 /\ IsResult(last.outs[1])
        /\ Len(ResultData(last.outs[1])) <= L
        /\ ResultData(last.outs[1]) = SubSeq(last.upstream.rows, 1, Min(L, n))

(***************************************************************************)
(* C13.  For every row set, computeKpis and the kpis helper of POST /query *)
(* return total = the number of rows and delivered, failed, blocked = the  *)
(* number of rows with exactly that status, so that delivered + failed +   *)
(* blocked <= total; avgLatency is 0 when total is 0 and otherwise         *)
(* satisfies avgLatency * total = the sum of latency_ms.                   *)
(*                                                                         *)
(* The product is the one a client computes on the numbers it receives.    *)
(* C13_Kpis is the statement as it stands.  C13_KpisRounded keeps the      *)
(* counts and states what holds of the average: it is the double nearest   *)
(* to sum / total, and avgLatency * total = sum when total is a power of   *)
(* two.                                                                    *)
(***************************************************************************)
KpisSeen ==
  /\ last.kind \in {"settled", "queryreply"}
  /\ Answered200(last.upstream)
  /\ IF last.kind = "settled" THEN last.closure.name = JStr("proximus.kpis")
                              ELSE last.closure.resource = JStr("kpis")
SeenKpis ==
  IF last.kind = "settled" THEN ResultData(last.outs[1]) ELSE last.reply.body.data

CountOf(rows, status) == Cardinality({i \in DOMAIN rows : rows[i].status = status})
LatencySum(rows) ==
  LET S[i \in 0..Len(rows)] == IF i = 0 THEN 0 ELSE S[i - 1] + rows[i].latency_ms
  IN  S[Len(rows)]

KpisCounts(k, rows) ==
  /\ k.total = Len(rows)
  /\ k.delivered = CountOf(rows, "DELIVERED")
  /\ k.failed = CountOf(rows, "FAILED")
  /\ k.blocked = CountOf(rows, "BLOCKED")
  /\ k.delivered + k.failed + k.blocked <= k.total
  /\ k.total = 0 => k.avgLatency = FromNat(0)

\* x is a double nearest to a / b: 2 * |M * b - a * 2^k| <= b, limb by limb.
Nearest(x, a, b) ==
  IF x = Zero THEN a = 0
  ELSE LET plo == (x.lo * b) % Limb
           phi == x.hi * b + (x.lo * b) \div Limb
           diff == phi - a * 2 ^ (x.k - LimbBits)
       IN  /\ x.k >= LimbBits
           /\ \/ diff = 0 /\ 2 * plo <= b
              \/ diff = -1 /\ 2 * (Limb - plo) <= b

PowerOfTwo(n) == \E e \in 0..MaxRows : n = 2 ^ e

C13_Kpis ==
  KpisSeen =>
    LET k == SeenKpis
        rows == last.upstream.rows
    IN  /\ KpisCounts(k, rows)
        /\ k.total # 0 => FMul(k.avgLatency, k.total) = FromNat(LatencySum(rows))

C13_KpisRounded ==
  KpisSeen =>
    LET k == SeenKpis
        rows == last.upstream.rows
    IN  /\ KpisCounts(k, rows)
        /\ k.total # 0 => Nearest(k.avgLatency, LatencySum(rows), k.total)
        /\ (k.total # 0 /\ PowerOfTwo(k.total))
             => FMul(k.avgLatency, k.total) = FromNat(LatencySum(rows))

\* A summary of seven rows whose latencies add up to 29: 29 / 7 is rounded.
C13_Witness ==
  /\ KpisSeen /\ Len(last.upstream.rows) = 7 /\ LatencySum(last.upstream.rows) = 29
  /\ SeenKpis.total = 7 /\ SeenKpis.avgLatency = FDiv(29, 7)

(***************************************************************************)
(* C14.  HTTP variant, credential required: a POST /query whose            *)
(* Authorization header is absent, is not a Bearer token, or carries a     *)
(* Bearer token that differs from the secret (shorter, as long, or longer) *)
(* is answered 401 and its handler never runs: no fetch, no {ok, data}.    *)
(***************************************************************************)
BadCredential(req) ==
  \/ req.authorization = NoHeader
  \/ req.authorization.scheme # "Bearer "
  \/ req.authorization.rest # Secret

C14_Unauthorized ==
  (/\ variant = "http" /\ MCP_REQUIRE_KEY
   /\ last.kind \in {"reply", "queryfetch"}
   /\ BadCredential(last.req)) =>
     (last.kind = "reply" /\ ~last.ran /\ last.reply.status = 401)

(***************************************************************************)
(* C15.  WebSocket variant, credential required and a secret configured:   *)
(* an upgrade request on /mcp that carries the secret as a Bearer token in *)
(* the Authorization header or as the `key` query parameter is accepted,   *)
(* whatever the other place holds (nothing, the empty string, or another   *)
(* value).                                                                 *)
(***************************************************************************)
CarriesSecret(req) ==
  \/ req.authorization = Header("Bearer ", Secret)
  \/ req.key = JStr(Secret)

C15_EitherPlace ==
  (/\ variant = "ws" /\ MCP_REQUIRE_KEY /\ MCP_API_KEY = JStr(Secret)
   /\ last.kind = "upgrade" /\ last.req.path = "/mcp"
   /\ CarriesSecret(last.req)) =>
     last.status = 101

(***************************************************************************)
(* C16.  HTTP variant: a POST /query whose `resource` is present and is    *)
(* neither kpis nor records is always answered 400 "unknown resource",     *)
(* never with a fetch error (502 or 500), whatever the upstream answers    *)
(* and whether or not the upstream URL is configured.                      *)
(***************************************************************************)
UnknownResource(r) == Truthy(r) /\ r \notin {JStr("kpis"), JStr("records")}
Resource(req) == Prop(Or(req.body, EmptyObj), "resource")
IsUnknownResourceError(reply) ==
  reply.status = 400 /\ reply.body.error = "unknown resource"

C16_UnknownResource ==
  /\ (last.kind = "reply" /\ last.ran /\ UnknownResource(Resource(last.req)))
       => IsUnknownResourceError(last.reply)
  /\ (last.kind = "queryreply" /\ UnknownResource(last.closure.resource))
       => IsUnknownResourceError(last.reply)
  /\ last.kind = "queryfetch" => ~UnknownResource(Resource(last.req))

(***************************************************************************)
(* C17.  With the upstream URL not configured, a request that attempts a   *)
(* fetch is answered with an error of the class of a fetch error (the      *)
(* JSON-RPC code of one on the WebSocket variant, the HTTP status of one   *)
(* on POST /query), and a request that attempts no fetch (initialize,      *)
(* tools/list, ping, unknown tool, missing name or resource) is answered   *)
(* exactly as it is when the URL is configured.                            *)
(***************************************************************************)
Configured == JStr(DemoUrl)
\* What a failed fetch is answered with: the code, the statuses.
FetchErrorCode == ErrorCode(Resume(JNum(1), [name |-> JStr("proximus.kpis")], Rejected).outs[1])
FetchErrorStatuses ==
  {QueryResume([resource |-> JStr("kpis")], o).status : o \in Failures}

C17_UnsetUrl ==
  ~Truthy(DEMO_API_URL) =>
    /\ last.kind = "handled" =>
         IF Handle(last.frame, Configured).do = "await"
           THEN /\ Len(last.outs) = 1 /\ IsError(last.outs[1])
                /\ ErrorCode(last.outs[1]) = FetchErrorCode
           ELSE last.outs = Handle(last.frame, Configured).outs
    /\ (last.kind = "reply" /\ last.ran) =>
         IF Query(last.req, Configured).do = "await"
           THEN last.reply.status \in FetchErrorStatuses
           ELSE last.reply = Query(last.req, Configured).reply

(***************************************************************************)
(* C18.  Each accepted WebSocket connection has exactly one keepalive      *)
(* timer, of period 30000 ms, from its acceptance until its close event,   *)
(* and the close event cancels it: a socket that was refused or has closed *)
(* has no timer, and no ping is ever sent on it.  A tick of the timer      *)
(* sends a ping only while the socket is OPEN.  Handling a message, with   *)
(* its fetch and its errors, never starts, stops or duplicates a timer.    *)
(***************************************************************************)
C18_TimerState ==
  \A s \in Slots :
    /\ ws[s] \in {"OPEN", "CLOSING"} => pingIv[s] = <<30000>>
    /\ ws[s] \in {"NONE", "DESTROYED", "CLOSED"} => pingIv[s] = <<>>

C18_Keepalive ==
  /\ []C18_TimerState
  /\ [][(last' # last /\ last'.kind = "ping")
          => (ws[last'.conn] = "OPEN" /\ UNCHANGED <<ws, pingIv>>)]_vars
  /\ [][(last' # last /\ last'.kind \in {"handled", "fetch", "settled"})
          => UNCHANGED pingIv]_vars

\* One connection has closed and lost its timer, a tools/call has been answered
\* with an error, and the other connection is open, keeps its timer and is pinged.
C18_Witness ==
  /\ \E s \in Slots : ws[s] = "CLOSED" /\ pingIv[s] = <<>>
  /\ \E h \in DOMAIN handlers : handlers[h].pc = "done" /\ handlers[h].failed
  /\ last.kind = "ping" /\ ws[last.conn] = "OPEN" /\ pingIv[last.conn] = <<30000>>

(***************************************************************************)
(* C19.  A tools/call whose upstream fetch never returns blocks only that  *)
(* one invocation.  While it is pending, every other request, on the same  *)
(* connection and on the others, still gets its response (a ping, an       *)
(* initialize, a tools/list at once, another tools/call once its own fetch *)
(* completes), and the keepalive timer still ticks: no handler waits on    *)
(* another one.                                                            *)
(***************************************************************************)
Hung(h) ==
  h \in DOMAIN handlers /\ handlers[h].pc = "await" /\ Hangs(handlers[h].qs)
HungPending == \E h \in 1..MaxMsgs : Hung(h)

C19_WhileHung ==
  HungPending =>
    /\ \A s \in Slots : ws[s] = "OPEN" =>
         /\ ENABLED PingTick(s)
         /\ Len(handlers) < MaxMsgs => ENABLED OnMessage(s, PingFrame)
    /\ \A h \in DOMAIN handlers :
         (handlers[h].pc = "await" /\ ~Hangs(handlers[h].qs)) => ENABLED FetchSettled(h)
    /\ last.kind = "handled" => (Len(last.outs) = 1 /\ last.written)
    /\ last.kind = "settled" => (Len(last.outs) = 1 /\ last.written)

C19_HangIsolated ==
  /\ []C19_WhileHung
  /\ []<>(\A h \in DOMAIN handlers : handlers[h].pc = "await" => Hangs(handlers[h].qs))

\* A call made after the one that hangs, on the same connection, got its result.
C19_Witness ==
  /\ last.kind = "settled" /\ last.written /\ IsResult(last.outs[1])
  /\ \E h \in 1..MaxMsgs : Hung(h) /\ h < last.h /\ handlers[h].conn = last.conn

(***************************************************************************)
(* C20.  The gates fail closed.  When a credential is required and no      *)
(* secret is configured, every WebSocket upgrade on /mcp and every POST    *)
(* /query is refused with 401, whatever the header and the query hold, an  *)
(* empty token included: no socket opens, no handler runs, no fetch is     *)
(* made.                                                                   *)
(***************************************************************************)
NoSecret == MCP_REQUIRE_KEY /\ MCP_API_KEY = JNull

C20_FailClosed ==
  NoSecret =>
    /\ (last.kind = "upgrade" /\ last.req.path = "/mcp") => last.status = 401
    /\ last.kind \in {"reply", "queryfetch", "queryreply"} =>
         (last.kind = "reply" /\ ~last.ran /\ last.reply.status = 401)
    /\ \A s \in Slots : ws[s] \in {"NONE", "DESTROYED"}
    /\ handlers = <<>>
    /\ \A k \in DOMAIN posts : posts[k].pc = "done" /\ posts[k].status = 401

\* With no secret configured, a POST /query that presents a Bearer token has been
\* refused with 401.
C20_Witness ==
  /\ NoSecret /\ variant = "http"
  /\ last.kind = "reply" /\ last.reply.status = 401
  /\ last.req.authorization = Header("Bearer ", Secret)

====
